---- MODULE Spec2Model ----
(***************************************************************************)
(* Model of the notes-api ordering and soft-delete core.                   *)
(*                                                                         *)
(* The durable store is four tables (User, Notebook, Page, Block) and the  *)
(* recycle bin (NotesRecycleBin).  Every parent row carries an array       *)
(* column with the order of its children (custom_notebook_order,           *)
(* custom_page_order, block_order).  Each request handler of api/views.py  *)
(* and each model method of api/models.py is one action; the PostgreSQL    *)
(* array functions the handlers call are operators with PostgreSQL's       *)
(* semantics (NULL propagation included).                                  *)
(*                                                                         *)
(* Spec serves any requests; SpecConcurrent serves mutations of the order  *)
(* columns issued at the same time against the sample data; SpecRecycleBin *)
(* serves deletes and listings of the recycle bin.  A request can fail at  *)
(* the statement that inserts or deletes its row (Faults).  SpecInFlight   *)
(* serves deletes in their two steps (the view loads the row and builds    *)
(* the snapshot; then its transaction writes the entry and deletes), with  *)
(* other requests served between the two.                                  *)
(*                                                                         *)
(* Not modelled: the created/updated timestamps and the preferences blobs  *)
(* of the rows (no handler of the core reads them).                        *)
(***************************************************************************)
EXTENDS Integers, Sequences, FiniteSets, TLC

\* ------------------------------------------------------------------ bounds
\* Requests served in one run, after the sample data was loaded.
MaxOps == 2
\* Mutations of order columns that clients issue at the same time.
MaxConcurrent == 2
\* Requests served in one run of deletes and recycle bin listings.
MaxBinOps == 4
\* Steps of the requests of one run in which deletes overlap other requests.
MaxInFlight == 4
\* Longest "pages" list of a move request.
MaxMove == 2
\* create_sample_data, scaled down: pages with blocks per "My Notebook"
\* (range(1, 3) in the command) and blocks per such page (range(1, 6)).
SamplePages == 1
SampleBlocks == 3

\* ------------------------------------------------------------- input sets
\* usernames of create_sample_data (two of its three).
Usernames == <<"user1", "user2">>
Users == {Usernames[i] : i \in DOMAIN Usernames}
NoUser == "-"
\* Titles and block payloads a client sends with a create request.
Titles == {"Untitled"}
BlockPayloads ==
    { [block_type |-> "todo", content |-> "buy milk", metadata |-> "{done}"] }
\* First entries of BLOCK_TYPE; the sample command draws each block's type
\* at random, the model takes the k-th type for the k-th block of a page.
BLOCK_TYPE == <<"h1", "h2", "h3", "p", "code", "ol">>
LoremIpsum ==
    <<"Lorem Ipsum 1", "Lorem Ipsum 2", "Lorem Ipsum 3", "Lorem Ipsum 4",
      "Lorem Ipsum 5", "Lorem Ipsum 6">>
PageTitle == <<"Page 1", "Page 2", "Page 3">>

\* An id a client supplies that names no row of any table.
Ghost == 0
\* Python's None for an optional uuid argument.
None == -1

VARIABLES User, Notebook, Page, Block, NotesRecycleBin, issued, last, pre, retry,
          response, nops, inflight

vars == <<User, Notebook, Page, Block, NotesRecycleBin, issued, last, pre, retry,
          response, nops, inflight>>

\* ---------------------------------------------------------------- helpers
Range(s) == {s[i] : i \in DOMAIN s}

Perms(S) ==
    {f \in [1..Cardinality(S) -> S] : \A x \in S : \E i \in DOMAIN f : f[i] = x}

SeqsUpTo(S, n) == UNION {[1..k -> S] : k \in 0..n}

IsDuplicateFree(s) == \A i, j \in DOMAIN s : s[i] = s[j] => i = j

\* ------------------------------------------------- PostgreSQL array values
SqlNull == [null |-> TRUE]
Val(v) == [null |-> FALSE, v |-> v]

\* A variant of ARRAY_APPEND that puts the element in front.
ARRAY_APPEND_Front(a, x) == <<x>> \o a

ARRAY_APPEND(a, x) == Append(a, x)

ARRAY_PREPEND(x, a) == <<x>> \o a

\* A variant of ARRAY_REMOVE that drops the head whatever the element is.
ARRAY_REMOVE_Head(a, x) == IF a = <<>> THEN a ELSE Tail(a)

ARRAY_REMOVE(a, x) == SelectSeq(a, LAMBDA y : y # x)

\* array_position: the subscript of the first occurrence, NULL when absent.
array_position(a, x) ==
    IF x \in Range(a)
    THEN Val(CHOOSE i \in DOMAIN a : a[i] = x /\ \A j \in 1..(i - 1) : a[j] # x)
    ELSE SqlNull

\* a[:n]; a NULL subscript makes the slice NULL.
SliceTo(a, n) == IF n.null THEN SqlNull ELSE Val(SubSeq(a, 1, n.v))

\* a[n+1:]
SliceAfter(a, n) == IF n.null THEN SqlNull ELSE Val(SubSeq(a, n.v + 1, Len(a)))

\* array_cat is not strict: a NULL argument yields the other argument.
ARRAY_CAT(a, b) == IF a.null THEN b ELSE IF b.null THEN a ELSE Val(a.v \o b.v)

\* ARRAY(SELECT UNNEST(a) EXCEPT SELECT UNNEST(b)): EXCEPT is a set
\* operation, so the rows are distinct and come in no defined order.
ExceptArrays(a, b) == Perms(Range(a) \ Range(b))

\* ------------------------------------------------ reposition_array_element
\* The error reposition_array_element raises, with its message.
ValueError ==
    "ValueError: At least one of position(value=top|bottom) or after(uuid) is expected"

\* A variant of the argument check that never raises.
reposition_raises_Never(position, after) == FALSE

\* Neither branch of reposition_array_element is taken: position is not top
\* or bottom and no after is given.
reposition_raises(position, after) ==
    position \notin {"top", "bottom"} /\ after = None

\* A variant of reposition_array_element that treats an after sibling as
\* position bottom.
reposition_AfterAsBottom(column, element, position, after) ==
    IF position = "top"
    THEN <<element>> \o SelectSeq(column, LAMBDA y : y # element)
    ELSE IF position = "bottom" \/ after # None
    THEN SelectSeq(column, LAMBDA y : y # element) \o <<element>>
    ELSE column

\* A variant of reposition_array_element that does not take the element out
\* of the array before it puts it in.
reposition_NoRemove(column, element, position, after) ==
    IF position = "top" THEN <<element>> \o column
    ELSE IF position = "bottom" THEN column \o <<element>>
    ELSE column

reposition_array_element(column, element, position, after) ==
    IF position = "top"
    THEN ARRAY_PREPEND(element, ARRAY_REMOVE(column, element))
    ELSE IF position = "bottom"
    THEN ARRAY_APPEND(ARRAY_REMOVE(column, element), element)
    ELSE IF after # None
    THEN LET removed == ARRAY_REMOVE(column, element)
             pos == array_position(removed, after)
         IN  ARRAY_CAT(SliceTo(removed, pos),
                       ARRAY_CAT(Val(<<element>>), SliceAfter(removed, pos))).v
    ELSE column

\* ------------------------------------------------------------------ state
Op(op, user, parent, element, position, after, dest, pages, status) ==
    [op |-> op, user |-> user, parent |-> parent, element |-> element,
     position |-> position, after |-> after, dest |-> dest, pages |-> pages,
     status |-> status]

\* The tables, as one value: `pre` holds them as they were before the last
\* request.
Tables ==
    [User |-> User, Notebook |-> Notebook, Page |-> Page, Block |-> Block,
     NotesRecycleBin |-> NotesRecycleBin]

\* create_sample_data: for each user a "Notebook without pages" and "My
\* Notebook" with SamplePages pages of SampleBlocks blocks each and a "Page
\* without blocks".  Ids are numbered in the order of creation per table.
SampleNotebooks == 1..(2 * Len(Usernames))
SamplePageIds == 1..((SamplePages + 1) * Len(Usernames))
SampleBlockIds == 1..(SampleBlocks * SamplePages * Len(Usernames))
SampleOwner(n) == Usernames[(n + 1) \div 2]
SampleNotebookOf(p) == 2 * (((p - 1) \div (SamplePages + 1)) + 1)
SamplePageIndex(p) == ((p - 1) % (SamplePages + 1)) + 1
\* Block b belongs to the q-th page that has blocks, counted over all users.
SampleBlockPage(b) ==
    LET q == (b - 1) \div SampleBlocks
    IN  (q \div SamplePages) * (SamplePages + 1) + (q % SamplePages) + 1
SampleBlockIndex(b) == ((b - 1) % SampleBlocks) + 1
Ascending(S) == CHOOSE f \in [1..Cardinality(S) -> S] :
                    \A i, j \in 1..Cardinality(S) : i < j => f[i] < f[j]

InitSample ==
    /\ User = [u \in Users |-> [custom_notebook_order |->
                    Ascending({n \in SampleNotebooks : SampleOwner(n) = u})]]
    /\ Notebook = [n \in SampleNotebooks |->
            [user |-> SampleOwner(n),
             title |-> IF n % 2 = 1 THEN "Notebook without pages" ELSE "My Notebook",
             custom_page_order |->
                Ascending({p \in SamplePageIds : SampleNotebookOf(p) = n})]]
    /\ Page = [p \in SamplePageIds |->
            [notebook |-> SampleNotebookOf(p),
             title |-> IF SamplePageIndex(p) <= SamplePages
                       THEN PageTitle[SamplePageIndex(p)]
                       ELSE "Page without blocks",
             block_order |->
                Ascending({b \in SampleBlockIds : SampleBlockPage(b) = p})]]
    /\ Block = [b \in SampleBlockIds |->
            [page |-> SampleBlockPage(b),
             block_type |-> BLOCK_TYPE[SampleBlockIndex(b)],
             content |-> LoremIpsum[SampleBlockIndex(b)],
             metadata |-> "null"]]
    /\ issued = [notebook |-> Cardinality(SampleNotebooks),
                 page |-> Cardinality(SamplePageIds),
                 block |-> Cardinality(SampleBlockIds)]

\* The database before any notebook was created.
InitEmpty ==
    /\ User = [u \in Users |-> [custom_notebook_order |-> <<>>]]
    /\ Notebook = <<>>
    /\ Page = <<>>
    /\ Block = <<>>
    /\ issued = [notebook |-> 0, page |-> 0, block |-> 0]

Init ==
    /\ InitEmpty \/ InitSample
    /\ NotesRecycleBin = <<>>
    /\ last = Op("init", NoUser, None, None, "none", None, None, <<>>, "ok")
    /\ pre = Tables
    /\ retry = FALSE
    /\ response = <<>>
    /\ nops = 0
    /\ inflight = <<>>

\* The state right after create_sample_data ran.
InitLoaded ==
    /\ Init
    /\ Notebook # <<>>

\* Rows of a table: a function from the ids of the live rows.
Live(table) == DOMAIN table

Insert(table, id, row) == [i \in Live(table) \cup {id} |-> IF i = id THEN row ELSE table[i]]

Delete(table, ids) == [i \in Live(table) \ ids |-> table[i]]

\* instance.pages / instance.blocks: the rows whose foreign key is the parent.
PagesOf(n) == {p \in Live(Page) : Page[p].notebook = n}
BlocksOf(p) == {b \in Live(Block) : Block[b].page = p}

\* ------------------------------------------------------------ transactions
\* What a request can meet while it runs: nothing, or a failure of the
\* statement that inserts or deletes the row (a database error, a lost
\* connection), after the statements before it ran.
Faults == {"none", "row"}

\* A variant of the save transaction that keeps what ran before the failure.
save_atomic_NoRollback(before, partial) == partial

\* `with transaction.atomic()` of Notebook.save, Page.save and Block.save:
\* the value of a table after a statement of the block failed, given its
\* value before the block and the value the statements that ran gave it.
save_atomic(before, partial) == before

\* A variant of the delete transaction that keeps what ran before the failure.
transaction_atomic_NoRollback(before, partial) == partial

\* `with transaction.atomic()` of the two perform_destroy methods.
transaction_atomic(before, partial) == before

\* Autocommit, outside any transaction.atomic(): every statement that ran is
\* committed.
autocommit(before, partial) == partial

\* ------------------------------------------------------------------ create
\* Notebook.save of a new instance (NotebookCreateSerializer.create): the
\* owner is the requesting user.
CreateNotebook(u, title, fault) ==
    LET id == issued.notebook + 1
        appended == [User EXCEPT ![u].custom_notebook_order = ARRAY_APPEND(@, id)]
    IN
    /\ issued' = [issued EXCEPT !.notebook = id]
    /\ IF fault = "none"
       THEN /\ User' = appended
            /\ Notebook' = Insert(Notebook, id,
                    [user |-> u, title |-> title, custom_page_order |-> <<>>])
            /\ last' = Op("create_notebook", u, u, id, "none", None, None, <<>>, "ok")
       ELSE /\ User' = save_atomic(User, appended)
            /\ UNCHANGED Notebook
            /\ last' = Op("create_notebook", u, u, id, "none", None, None, <<>>, "error")
    /\ UNCHANGED <<Page, Block, NotesRecycleBin>>

\* Page.save of a new instance (PageCreateSerializer.create looks the
\* notebook up by primary key alone and raises DoesNotExist).
CreatePage(n, title, fault) ==
    LET id == issued.page + 1
        appended == [Notebook EXCEPT ![n].custom_page_order = ARRAY_APPEND(@, id)]
    IN
    IF n \notin Live(Notebook)
    THEN /\ last' = Op("create_page", NoUser, n, None, "none", None, None, <<>>,
                       "DoesNotExist")
         /\ UNCHANGED <<User, Notebook, Page, Block, NotesRecycleBin, issued>>
    ELSE
    /\ issued' = [issued EXCEPT !.page = id]
    /\ IF fault = "none"
       THEN /\ Notebook' = appended
            /\ Page' = Insert(Page, id,
                    [notebook |-> n, title |-> title, block_order |-> <<>>])
            /\ last' = Op("create_page", NoUser, n, id, "none", None, None, <<>>, "ok")
       ELSE /\ Notebook' = save_atomic(Notebook, appended)
            /\ UNCHANGED Page
            /\ last' = Op("create_page", NoUser, n, id, "none", None, None, <<>>, "error")
    /\ UNCHANGED <<User, Block, NotesRecycleBin>>

\* Block.save of a new instance (BlockCreateSerializer.create, same lookup).
CreateBlock(p, payload, fault) ==
    LET id == issued.block + 1
        appended == [Page EXCEPT ![p].block_order = ARRAY_APPEND(@, id)]
    IN
    IF p \notin Live(Page)
    THEN /\ last' = Op("create_block", NoUser, p, None, "none", None, None, <<>>,
                       "DoesNotExist")
         /\ UNCHANGED <<User, Notebook, Page, Block, NotesRecycleBin, issued>>
    ELSE
    /\ issued' = [issued EXCEPT !.block = id]
    /\ IF fault = "none"
       THEN /\ Page' = appended
            /\ Block' = Insert(Block, id,
                    [page |-> p, block_type |-> payload.block_type,
                     content |-> payload.content, metadata |-> payload.metadata])
            /\ last' = Op("create_block", NoUser, p, id, "none", None, None, <<>>, "ok")
       ELSE /\ Page' = save_atomic(Page, appended)
            /\ UNCHANGED Block
            /\ last' = Op("create_block", NoUser, p, id, "none", None, None, <<>>, "error")
    /\ UNCHANGED <<User, Notebook, NotesRecycleBin>>

\* ------------------------------------------------------------- serializers
\* BlockReadSerializer: id, block_type, content, metadata.
BlockReadSerializer(b) ==
    [id |-> b, block_type |-> Block[b].block_type,
     content |-> Block[b].content, metadata |-> Block[b].metadata]

\* PageListSerializer: id, title (and updated).
PageListSerializer(p) == [id |-> p, title |-> Page[p].title]

\* PageReadSerializer with include_block_list: "blocks" is the block_order
\* column.
PageReadSerializer(p) ==
    [id |-> p, notebook |-> Page[p].notebook, title |-> Page[p].title,
     blocks |-> Page[p].block_order]

\* NotebookDetailSerializer with include_page_list: "pages" lists
\* instance.pages in the order the rows come in `pageRows`.
NotebookDetailSerializer(n, pageRows) ==
    [id |-> n, title |-> Notebook[n].title,
     pages |-> [i \in DOMAIN pageRows |-> PageListSerializer(pageRows[i])]]

\* ------------------------------------------------------------------ delete
\* A variant of the cascade that leaves the pages of a deleted notebook.
CascadePages_None(ns) == {}

\* Cascade of the foreign keys (on_delete=CASCADE).
CascadePages(ns) == {p \in Live(Page) : Page[p].notebook \in ns}
CascadeBlocks(ps) == {b \in Live(Block) : Block[b].page \in ps}

\* The snapshot NotebookViewSet.perform_destroy builds.  instance.pages.all()
\* is an unordered queryset, evaluated twice: each evaluation returns the rows
\* in an order the database chooses (rows1, rows2).
NotebookSnapshot(n, rows1, rows2) ==
    LET serialized_nb == NotebookDetailSerializer(n, rows1) IN
    [id |-> serialized_nb.id, title |-> serialized_nb.title,
     pages |-> serialized_nb.pages,
     page_items |-> [i \in DOMAIN rows2 |-> PageReadSerializer(rows2[i])]]

\* A variant of the page snapshot that keeps no block_items.
PageSnapshot_NoItems(p, rows) ==
    LET serialized_page == PageReadSerializer(p) IN
    [id |-> serialized_page.id, notebook |-> serialized_page.notebook,
     title |-> serialized_page.title, blocks |-> serialized_page.blocks,
     block_items |-> <<>>]

\* The snapshot PageDetailView.perform_destroy builds; instance.blocks.all()
\* is unordered too (rows).
PageSnapshot(p, rows) ==
    LET serialized_page == PageReadSerializer(p) IN
    [id |-> serialized_page.id, notebook |-> serialized_page.notebook,
     title |-> serialized_page.title, blocks |-> serialized_page.blocks,
     block_items |-> [i \in DOMAIN rows |-> BlockReadSerializer(rows[i])]]

\* NotesRecycleBin.objects.create;
\* id is a fresh uuid; deleted_on (auto_now_add) is the time of the request.
RecycleBinEntry(u, n, item_type, item) ==
    [id |-> Len(NotesRecycleBin) + 1, user |-> u, notebook_id |-> n,
     notebook_title |-> Notebook[n].title, item_type |-> item_type,
     item |-> item, deleted_on |-> nops + 1]

\* NotebookViewSet.perform_destroy, then Notebook.delete.  get_object looks
\* the notebook up among the requesting user's.
DestroyNotebook(u, n, fault) ==
    IF n \notin Live(Notebook) \/ Notebook[n].user # u
    THEN /\ last' = Op("destroy_notebook", u, u, n, "none", None, None, <<>>, "404")
         /\ UNCHANGED <<User, Notebook, Page, Block, NotesRecycleBin, issued>>
    ELSE \E rows1 \in Perms(PagesOf(n)), rows2 \in Perms(PagesOf(n)) :
         LET created == Append(NotesRecycleBin,
                 RecycleBinEntry(u, n, "notebook", NotebookSnapshot(n, rows1, rows2)))
             removed == [User EXCEPT ![Notebook[n].user].custom_notebook_order =
                                    ARRAY_REMOVE(@, n)]
         IN
         IF fault = "none"
         THEN /\ NotesRecycleBin' = created
              /\ User' = removed
              /\ Notebook' = Delete(Notebook, {n})
              /\ Page' = Delete(Page, CascadePages({n}))
              /\ Block' = Delete(Block, CascadeBlocks(CascadePages({n})))
              /\ last' = Op("destroy_notebook", u, Notebook[n].user, n, "none", None,
                            None, <<>>, "204")
              /\ UNCHANGED issued
         ELSE /\ NotesRecycleBin' = transaction_atomic(NotesRecycleBin, created)
              /\ User' = transaction_atomic(User, removed)
              /\ last' = Op("destroy_notebook", u, Notebook[n].user, n, "none", None,
                            None, <<>>, "error")
              /\ UNCHANGED <<Notebook, Page, Block, issued>>

\* PageDetailView.perform_destroy, then Page.delete.  The queryset is
\* Page.objects.all().
DestroyPage(u, p, fault) ==
    IF p \notin Live(Page)
    THEN /\ last' = Op("destroy_page", u, None, p, "none", None, None, <<>>, "404")
         /\ UNCHANGED <<User, Notebook, Page, Block, NotesRecycleBin, issued>>
    ELSE \E rows \in Perms(BlocksOf(p)) :
         LET created == Append(NotesRecycleBin,
                 RecycleBinEntry(u, Page[p].notebook, "page", PageSnapshot(p, rows)))
             removed == [Notebook EXCEPT ![Page[p].notebook].custom_page_order =
                                    ARRAY_REMOVE(@, p)]
         IN
         IF fault = "none"
         THEN /\ NotesRecycleBin' = created
              /\ Notebook' = removed
              /\ Page' = Delete(Page, {p})
              /\ Block' = Delete(Block, CascadeBlocks({p}))
              /\ last' = Op("destroy_page", u, Page[p].notebook, p, "none", None, None,
                            <<>>, "204")
              /\ UNCHANGED <<User, issued>>
         ELSE /\ NotesRecycleBin' = transaction_atomic(NotesRecycleBin, created)
              /\ Notebook' = transaction_atomic(Notebook, removed)
              /\ last' = Op("destroy_page", u, Page[p].notebook, p, "none", None, None,
                            <<>>, "error")
              /\ UNCHANGED <<User, Page, Block, issued>>

\* BlockDetailView (DestroyAPIView) calls Block.delete; the queryset is
\* Block.objects.all().  Block.delete opens no transaction and the view adds
\* none: the UPDATE is committed when the row delete runs.
DestroyBlock(u, b, fault) ==
    IF b \notin Live(Block)
    THEN /\ last' = Op("destroy_block", u, None, b, "none", None, None, <<>>, "404")
         /\ UNCHANGED <<User, Notebook, Page, Block, NotesRecycleBin, issued>>
    ELSE LET removed == [Page EXCEPT ![Block[b].page].block_order = ARRAY_REMOVE(@, b)]
         IN
         IF fault = "none"
         THEN /\ Page' = removed
              /\ Block' = Delete(Block, {b})
              /\ last' = Op("destroy_block", u, Block[b].page, b, "none", None, None,
                            <<>>, "204")
              /\ UNCHANGED <<User, Notebook, NotesRecycleBin, issued>>
         ELSE /\ Page' = autocommit(Page, removed)
              /\ last' = Op("destroy_block", u, Block[b].page, b, "none", None, None,
                            <<>>, "error")
              /\ UNCHANGED <<User, Notebook, Block, NotesRecycleBin, issued>>

\* --------------------------------------------------- a delete in two steps
\* perform_destroy builds the snapshot from the instance get_object loaded and
\* from instance.blocks.all() / instance.pages.all() before it opens its
\* transaction; requests of other clients are served between that and the
\* transaction.  `inflight` holds the delete requests that built their
\* snapshot: the row they loaded, its foreign key and title as loaded, the
\* snapshot, and whether the transaction ran.
InFlight(op, u, instance, notebook, title, item) ==
    [op |-> op, user |-> u, instance |-> instance, notebook |-> notebook,
     title |-> title, item |-> item, done |-> FALSE]

\* PageDetailView: get_object, then the statements of perform_destroy before
\* `with transaction.atomic()`.
LoadPage(u, p) ==
    /\ IF p \notin Live(Page)
       THEN /\ last' = Op("destroy_page", u, None, p, "none", None, None, <<>>, "404")
            /\ UNCHANGED inflight
       ELSE \E rows \in Perms(BlocksOf(p)) :
            /\ inflight' = Append(inflight,
                    InFlight("destroy_page", u, p, Page[p].notebook, Page[p].title,
                             PageSnapshot(p, rows)))
            /\ last' = Op("destroy_page", u, Page[p].notebook, p, "none", None, None,
                          <<>>, "loaded")
    /\ UNCHANGED <<User, Notebook, Page, Block, NotesRecycleBin, issued>>

\* NotebookViewSet: get_object among the user's notebooks, then the
\* statements of perform_destroy before `with transaction.atomic()`.
LoadNotebook(u, n) ==
    /\ IF n \notin Live(Notebook) \/ Notebook[n].user # u
       THEN /\ last' = Op("destroy_notebook", u, u, n, "none", None, None, <<>>, "404")
            /\ UNCHANGED inflight
       ELSE \E rows1 \in Perms(PagesOf(n)), rows2 \in Perms(PagesOf(n)) :
            /\ inflight' = Append(inflight,
                    InFlight("destroy_notebook", u, n, n, Notebook[n].title,
                             NotebookSnapshot(n, rows1, rows2)))
            /\ last' = Op("destroy_notebook", u, Notebook[n].user, n, "none", None,
                          None, <<>>, "loaded")
    /\ UNCHANGED <<User, Notebook, Page, Block, NotesRecycleBin, issued>>

\* The transaction of PageDetailView.perform_destroy for the i-th request in
\* flight.  instance.notebook is fetched here (DoesNotExist when the notebook
\* is gone); the entry holds the snapshot built before; Page.delete removes
\* the id from the notebook's column and deletes the page row, if it is
\* still there, and the blocks that reference it now.  Deleting a row that
\* is gone deletes nothing and raises nothing.
CommitPage(i) ==
    LET r == inflight[i]
        p == r.instance
    IN
    /\ r.op = "destroy_page"
    /\ ~r.done
    /\ inflight' = [inflight EXCEPT ![i].done = TRUE]
    /\ IF r.notebook \notin Live(Notebook)
       THEN /\ last' = Op("destroy_page", r.user, r.notebook, p, "none", None, None,
                          <<>>, "DoesNotExist")
            /\ UNCHANGED <<User, Notebook, Page, Block, NotesRecycleBin, issued>>
       ELSE /\ NotesRecycleBin' = Append(NotesRecycleBin,
                    RecycleBinEntry(r.user, r.notebook, "page", r.item))
            /\ Notebook' = [Notebook EXCEPT ![r.notebook].custom_page_order =
                                ARRAY_REMOVE(@, p)]
            /\ Page' = Delete(Page, {p})
            /\ Block' = Delete(Block, CascadeBlocks({p}))
            /\ last' = Op("destroy_page", r.user, r.notebook, p, "none", None, None,
                          <<>>, "204")
            /\ UNCHANGED <<User, issued>>

\* The transaction of NotebookViewSet.perform_destroy for the i-th request in
\* flight: the entry holds instance.pk, instance.title and the snapshot as
\* loaded; Notebook.delete removes the id from the owner's column and deletes
\* the notebook row, if it is still there, and the pages and blocks below it
\* now.
CommitNotebook(i) ==
    LET r == inflight[i]
        n == r.instance
    IN
    /\ r.op = "destroy_notebook"
    /\ ~r.done
    /\ inflight' = [inflight EXCEPT ![i].done = TRUE]
    /\ NotesRecycleBin' = Append(NotesRecycleBin,
            [id |-> Len(NotesRecycleBin) + 1, user |-> r.user, notebook_id |-> n,
             notebook_title |-> r.title, item_type |-> "notebook", item |-> r.item,
             deleted_on |-> nops + 1])
    /\ User' = [User EXCEPT ![r.user].custom_notebook_order = ARRAY_REMOVE(@, n)]
    /\ Notebook' = Delete(Notebook, {n})
    /\ Page' = Delete(Page, CascadePages({n}))
    /\ Block' = Delete(Block, CascadeBlocks(CascadePages({n})))
    /\ last' = Op("destroy_notebook", r.user, r.user, n, "none", None, None, <<>>, "204")
    /\ UNCHANGED issued

\* -------------------------------------------------------------- reposition
\* What a client can send as a placement: position top or bottom, or an
\* after sibling, or neither ("none": no position; "middle": a position that
\* is not top or bottom).
Placements(ids) ==
    {<<"top", None>>, <<"bottom", None>>, <<"none", None>>, <<"middle", None>>}
        \cup {<<"none", a>> : a \in ids}

\* The ids a client names in a reposition request on one parent: the ids in
\* the parent's array, the parent's child rows, and an id that names no row.
ChildArgs(column, rows) == Range(column) \cup rows \cup {Ghost}

NotebookArgs(u) ==
    ChildArgs(User[u].custom_notebook_order,
              {n \in Live(Notebook) : Notebook[n].user = u})
PageArgs(n) ==
    IF n \in Live(Notebook)
    THEN ChildArgs(Notebook[n].custom_page_order, PagesOf(n))
    ELSE {Ghost}
BlockArgs(p) == ChildArgs(Page[p].block_order, BlocksOf(p))

\* NotebookViewSet.reposition -> User.reposition_notebook
RepositionNotebook(u, element, position, after) ==
    /\ IF reposition_raises(position, after)
       THEN /\ UNCHANGED User
            /\ last' = Op("reposition_notebook", u, u, element, position,
                          after, None, <<>>, ValueError)
       ELSE /\ User' = [User EXCEPT ![u].custom_notebook_order =
                            reposition_array_element(@, element, position, after)]
            /\ last' = Op("reposition_notebook", u, u, element, position,
                          after, None, <<>>, "204")
    /\ UNCHANGED <<Notebook, Page, Block, NotesRecycleBin, issued>>

\* views.reposition_page -> Notebook.reposition_page; the notebook is looked
\* up by primary key alone (Notebook.objects.get raises DoesNotExist).
RepositionPage(u, n, element, position, after) ==
    /\ IF n \notin Live(Notebook)
       THEN /\ UNCHANGED Notebook
            /\ last' = Op("reposition_page", u, n, element, position,
                          after, None, <<>>, "DoesNotExist")
       ELSE IF reposition_raises(position, after)
       THEN /\ UNCHANGED Notebook
            /\ last' = Op("reposition_page", u, n, element, position,
                          after, None, <<>>, ValueError)
       ELSE /\ Notebook' = [Notebook EXCEPT ![n].custom_page_order =
                            reposition_array_element(@, element, position, after)]
            /\ last' = Op("reposition_page", u, n, element, position,
                          after, None, <<>>, "204")
    /\ UNCHANGED <<User, Page, Block, NotesRecycleBin, issued>>

\* Page.reposition_block, called on a loaded Page instance.
RepositionBlock(p, element, position, after) ==
    /\ p \in Live(Page)
    /\ IF reposition_raises(position, after)
       THEN /\ UNCHANGED Page
            /\ last' = Op("reposition_block", NoUser, p, element, position,
                          after, None, <<>>, ValueError)
       ELSE /\ Page' = [Page EXCEPT ![p].block_order =
                            reposition_array_element(@, element, position, after)]
            /\ last' = Op("reposition_block", NoUser, p, element, position,
                          after, None, <<>>, "204")
    /\ UNCHANGED <<User, Notebook, Block, NotesRecycleBin, issued>>

\* -------------------------------------------------------------- move_pages
\* A variant of the UPDATE that moves the first listed page only.
MovedPageTable_FirstOnly(dest, pages) ==
    [p \in Live(Page) |->
        IF pages # <<>> /\ p = pages[1]
        THEN [Page[p] EXCEPT !.notebook = dest] ELSE Page[p]]

\* UPDATE page SET notebook_id = dest WHERE id = ANY(pages)
MovedPageTable(dest, pages) ==
    [p \in Live(Page) |->
        IF p \in Range(pages) THEN [Page[p] EXCEPT !.notebook = dest] ELSE Page[p]]

\* A variant of the lookup that does not ask whose the notebooks are.
nbs_AnyOwner(u, src, dest) == {n \in Live(Notebook) : n \in {src, dest}}

\* request.user.notebooks.filter(pk__in=[source_notebook, destination_notebook])
nbs(u, src, dest) ==
    {n \in Live(Notebook) : Notebook[n].user = u /\ n \in {src, dest}}

\* The statement of move_pages that fails, if one does (a deadlock with a
\* concurrent move, a lost connection): the UPDATE of the source notebook,
\* which runs after the pages were re-parented, or the UPDATE of the
\* destination notebook, which runs after both.
MoveFaults == {"none", "source", "dest"}

\* A variant of the move transaction that keeps what ran before the failure.
move_atomic_NoRollback(before, partial) == partial

\* `with transaction.atomic(), connection.cursor() as cur` of move_pages.
move_atomic(before, partial) == before

\* The three UPDATE statements of move_pages, in one transaction.
MovePages(u, src, dest, fault) ==
    IF Cardinality(nbs(u, src, dest)) # 2
    THEN /\ last' = Op("move_pages", u, src, None, "none", None, dest, <<>>, "404")
         /\ UNCHANGED <<User, Notebook, Page, Block, NotesRecycleBin, issued>>
    ELSE \E pages \in SeqsUpTo(Live(Page) \cup {Ghost}, MaxMove) :
         \E remaining \in ExceptArrays(Notebook[src].custom_page_order, pages) :
         LET reparented == MovedPageTable(dest, pages)
             removed == [Notebook EXCEPT ![src].custom_page_order = remaining]
             added == [removed EXCEPT
                          ![dest].custom_page_order = ARRAY_CAT(Val(@), Val(pages)).v]
         IN  /\ Page' = IF fault = "none" THEN reparented
                        ELSE move_atomic(Page, reparented)
             /\ Notebook' = IF fault = "none" THEN added
                            ELSE IF fault = "source" THEN move_atomic(Notebook, Notebook)
                            ELSE move_atomic(Notebook, removed)
             /\ last' = Op("move_pages", u, src, None, "none", None, dest, pages,
                           IF fault = "none" THEN "204" ELSE "error")
             /\ UNCHANGED <<User, Block, NotesRecycleBin, issued>>

\* ------------------------------------------------------------- recycle bin
\* NotesRecycleBinListSerializer: id, item_type, notebook_id, notebook_title,
\* pages (get_pages) and deleted_on.
NotesRecycleBinListSerializer(instance) ==
    [id |-> instance.id, item_type |-> instance.item_type,
     notebook_id |-> instance.notebook_id,
     notebook_title |-> instance.notebook_title,
     pages |-> IF instance.item_type = "notebook"
               THEN [i \in DOMAIN instance.item.page_items |->
                        [id |-> instance.item.page_items[i].id,
                         title |-> instance.item.page_items[i].title]]
               ELSE <<[id |-> instance.item.id, title |-> instance.item.title]>>,
     deleted_on |-> instance.deleted_on]

\* A variant of order_by that sorts by "-deleted_on".
order_by_Descending(rows) ==
    {f \in Perms(rows) : \A i, j \in DOMAIN f :
        i < j => NotesRecycleBin[f[i]].deleted_on >= NotesRecycleBin[f[j]].deleted_on}

\* .order_by("deleted_on"): the rows (positions in the table) in ascending
\* deleted_on, rows of equal deleted_on in any order.
order_by(rows) ==
    {f \in Perms(rows) : \A i, j \in DOMAIN f :
        i < j => NotesRecycleBin[f[i]].deleted_on <= NotesRecycleBin[f[j]].deleted_on}

\* NotesRecycleBin.objects.filter(user=self.request.user).order_by("deleted_on")
get_queryset(u) ==
    order_by({i \in DOMAIN NotesRecycleBin : NotesRecycleBin[i].user = u})

\* NotesRecycleBinViewSet list (GET recyclebin/).
ListRecycleBin(u) ==
    /\ \E rows \in get_queryset(u) :
          response' = [i \in DOMAIN rows |->
                          NotesRecycleBinListSerializer(NotesRecycleBin[rows[i]])]
    /\ last' = Op("list_recycle_bin", u, u, None, "none", None, None, <<>>, "200")
    /\ UNCHANGED <<User, Notebook, Page, Block, NotesRecycleBin, issued>>

\* NotesRecycleBinViewSet.restore (POST recyclebin/<pk>/restore/).  The action
\* is declared with detail=True, so the router's route captures pk and the
\* view is called as restore(request, pk=...); the method is declared as
\* restore(self, request), so the routed call ends in Python's TypeError
\* before the body runs.  Called as declared, the body raises
\* NotImplementedError.  Neither call touches a table.
RestoreCalls == {"routed", "declared"}

restore(call) ==
    IF call = "routed" THEN "TypeError" ELSE "NotImplementedError"

Restore(u, entry, call) ==
    /\ last' = Op("restore", u, entry, None, "none", None, None, <<>>, restore(call))
    /\ UNCHANGED <<User, Notebook, Page, Block, NotesRecycleBin, issued>>

\* ------------------------------------------------------------ specification
\* One request is served per step, MaxOps of them in a run; `pre` keeps the
\* tables the request found, and `retry` tells that the request repeats the
\* one served before it (the same operation with the same arguments).
Handle(bound, request) ==
    /\ nops < bound
    /\ request
    /\ nops' = nops + 1
    /\ pre' = Tables
    /\ retry' = (last'.op = last.op /\ [last' EXCEPT !.status = ""] = [last EXCEPT !.status = ""])

\* A request whose response has no body.
ServeWithin(bound, request) ==
    Handle(bound, request /\ response' = <<>> /\ UNCHANGED inflight)

Serve(request) == ServeWithin(MaxOps, request)

EntryRefs == DOMAIN NotesRecycleBin \cup {Ghost}
NotebookRefs == Live(Notebook) \cup {Ghost}
PageRefs == Live(Page) \cup {Ghost}
BlockRefs == Live(Block) \cup {Ghost}

Next ==
    \/ \E u \in Users, t \in Titles, f \in Faults : Serve(CreateNotebook(u, t, f))
    \/ \E n \in NotebookRefs, t \in Titles, f \in Faults : Serve(CreatePage(n, t, f))
    \/ \E p \in PageRefs, c \in BlockPayloads, f \in Faults : Serve(CreateBlock(p, c, f))
    \/ \E u \in Users, n \in NotebookRefs, f \in Faults : Serve(DestroyNotebook(u, n, f))
    \/ \E u \in Users, p \in PageRefs, f \in Faults : Serve(DestroyPage(u, p, f))
    \/ \E u \in Users, b \in BlockRefs, f \in Faults : Serve(DestroyBlock(u, b, f))
    \/ \E u \in Users : \E e \in NotebookArgs(u), pl \in Placements(NotebookArgs(u)) :
            Serve(RepositionNotebook(u, e, pl[1], pl[2]))
    \/ \E u \in Users, n \in NotebookRefs :
        \E e \in PageArgs(n), pl \in Placements(PageArgs(n)) :
            Serve(RepositionPage(u, n, e, pl[1], pl[2]))
    \/ \E p \in Live(Page) : \E e \in BlockArgs(p), pl \in Placements(BlockArgs(p)) :
            Serve(RepositionBlock(p, e, pl[1], pl[2]))
    \/ \E u \in Users, src \in NotebookRefs, dest \in NotebookRefs, f \in MoveFaults :
            Serve(MovePages(u, src, dest, f))
    \/ \E u \in Users : Handle(MaxOps, ListRecycleBin(u) /\ UNCHANGED inflight)
    \/ \E u \in Users, e \in EntryRefs, c \in RestoreCalls : Serve(Restore(u, e, c))

Spec == Init /\ [][Next]_vars

\* ---------------------------------------------------- reading the last step
RepositionOps == {"reposition_notebook", "reposition_page", "reposition_block"}
CreateOps == {"create_notebook", "create_page", "create_block"}
DestroyOps == {"destroy_notebook", "destroy_page", "destroy_block"}

\* The order column of the parent row the request `l` names, in tables T.
Column(T, l) ==
    IF l.op \in {"create_notebook", "destroy_notebook", "reposition_notebook"}
    THEN T.User[l.parent].custom_notebook_order
    ELSE IF l.op \in {"create_page", "destroy_page", "reposition_page"}
    THEN T.Notebook[l.parent].custom_page_order
    ELSE T.Page[l.parent].block_order

\* The live child rows of that parent in tables T.
ChildRows(T, l) ==
    IF l.op \in {"create_notebook", "destroy_notebook", "reposition_notebook"}
    THEN {n \in DOMAIN T.Notebook : T.Notebook[n].user = l.parent}
    ELSE IF l.op \in {"create_page", "destroy_page", "reposition_page"}
    THEN {q \in DOMAIN T.Page : T.Page[q].notebook = l.parent}
    ELSE {b \in DOMAIN T.Block : T.Block[b].page = l.parent}

\* The parent's column before and after the last request.
Before == Column(pre, last)
Now == Column(Tables, last)

\* A child row of the parent whose id was in the parent's column.
IsMember(x) == x \in ChildRows(pre, last) /\ x \in Range(Before)

RECURSIVE Without(_, _)
\* s with every entry equal to x deleted, the other entries in place.
Without(s, x) ==
    IF s = <<>> THEN <<>>
    ELSE IF Head(s) = x THEN Without(Tail(s), x)
    ELSE <<Head(s)>> \o Without(Tail(s), x)

FirstIndex(s, x) == CHOOSE i \in DOMAIN s : s[i] = x /\ \A j \in 1..(i - 1) : s[j] # x

Repositioned == last.op \in RepositionOps /\ last.status = "204"
Destroyed == last.op \in DestroyOps /\ last.status = "204"
Created == last.op \in CreateOps /\ last.status = "ok"
Moved == last.op = "move_pages" /\ last.status = "204"

\* ------------------------------------------------------------------ claims
\* C1: after any sequence of Create, Delete, Reposition and MovePages
\* operations, every order column is free of duplicates and its element set
\* is exactly the set of ids of the live child rows of that parent.
C1_OrdersMatchLiveChildren ==
    /\ \A u \in Users :
        /\ IsDuplicateFree(User[u].custom_notebook_order)
        /\ Range(User[u].custom_notebook_order)
             = {n \in Live(Notebook) : Notebook[n].user = u}
    /\ \A n \in Live(Notebook) :
        /\ IsDuplicateFree(Notebook[n].custom_page_order)
        /\ Range(Notebook[n].custom_page_order) = PagesOf(n)
    /\ \A p \in Live(Page) :
        /\ IsDuplicateFree(Page[p].block_order)
        /\ Range(Page[p].block_order) = BlocksOf(p)

\* C2: Reposition of a member id to Top puts it at index 1, to Bottom at the
\* last index; the other ids keep their relative order and the length of the
\* sequence does not change.
C2_TopBottomKeepLength ==
    (Repositioned /\ last.position \in {"top", "bottom"} /\ IsMember(last.element))
    => /\ last.position = "top" => Now[1] = last.element
       /\ last.position = "bottom" => Now[Len(Now)] = last.element
       /\ Without(Now, last.element) = Without(Before, last.element)
       /\ Len(Now) = Len(Before)

\* C3: Reposition(element, After(sibling)) with element and sibling distinct
\* members puts element at the index right after sibling's position (the last
\* index when sibling's position was the last one), keeps the relative order
\* of all other ids and keeps the element set.
AfterSibling ==
    /\ Repositioned
    /\ last.position \notin {"top", "bottom"}
    /\ last.after # None
    /\ last.after # last.element
    /\ IsMember(last.element)
    /\ IsMember(last.after)

C3_AfterSibling ==
    AfterSibling
    => LET i == FirstIndex(Now, last.after)
           rest == Without(Before, last.element)
       IN  /\ i < Len(Now)
           /\ Now[i + 1] = last.element
           /\ FirstIndex(rest, last.after) = Len(rest) => Now[Len(Now)] = last.element
           /\ \A j \in DOMAIN Now : Now[j] = last.element => j = i + 1
           /\ Without(Now, last.element) = rest
           /\ Range(Now) = Range(Before)

\* Reached: an After reposition among at least three ids that changed the order.
C3_Witness ==
    /\ AfterSibling
    /\ Len(Before) >= 3
    /\ Now # Before
    /\ Now[Len(Now)] # last.element

\* C4: a Reposition served again with the same arguments leaves the sequence
\* as the first one left it, and the Remove step of a delete leaves a
\* sequence that does not hold the id unchanged, with no error.
SamePlacementOfMember ==
    /\ Repositioned
    /\ IsMember(last.element)
    /\ \/ last.position \in {"top", "bottom"}
       \/ last.after # last.element /\ IsMember(last.after)

C4_Idempotent ==
    /\ (retry /\ SamePlacementOfMember) => Now = Before
    /\ SamePlacementOfMember
       => reposition_array_element(Now, last.element, last.position, last.after) = Now
    /\ (Destroyed /\ last.element \notin Range(Before)) => Now = Before

\* Reached: the same After reposition served twice in a row on three or more
\* ids; the first one took the ids out of their ascending order and the
\* second one left them as it found them.
C4_Witness ==
    /\ retry
    /\ AfterSibling
    /\ Len(Before) >= 3
    /\ \E i \in 1..(Len(Before) - 1) : Before[i] > Before[i + 1]
    /\ Now = Before

\* Reached: the Remove step of a delete on a sequence that does not hold the id.
C4_RemoveAbsentReached ==
    /\ Destroyed
    /\ last.element \notin Range(Before)
    /\ Before # <<>>

\* C5: a create appends the new id at the end of the parent's sequence and
\* leaves the entries before it as they were.
C5_CreateAppends ==
    Created
    => /\ Len(Now) = Len(Before) + 1
       /\ Now[Len(Now)] = last.element
       /\ SubSeq(Now, 1, Len(Before)) = Before
       /\ last.element \in ChildRows(Tables, last)
       /\ last.element \notin ChildRows(pre, last)

\* Reached: a child created under a parent that already had two or more.
C5_Witness ==
    /\ Created
    /\ Len(Before) >= 2
    /\ Now[Len(Now)] = last.element

\* C6: a delete removes exactly the deleted child's id from its parent's
\* sequence; every other id stays, in the same relative order, and none is
\* added.
C6_DeleteRemoves ==
    Destroyed
    => /\ last.element \notin Range(Now)
       /\ Now = Without(Before, last.element)
       /\ \A x \in Range(Before) : x # last.element => x \in Range(Now)
       /\ Range(Now) \subseteq Range(Before)

\* Reached: a child deleted from the middle of a sequence of three or more.
C6_Witness ==
    /\ Destroyed
    /\ Len(Before) >= 3
    /\ Before[1] # last.element
    /\ Before[Len(Before)] # last.element
    /\ last.element \in Range(Before)
    /\ Len(Now) = Len(Before) - 1

\* --------------------------------------------------------------- move_pages
\* A served move whose page list is duplicate-free and names only pages that
\* were in the source notebook (last.parent).
ValidMove ==
    /\ Moved
    /\ IsDuplicateFree(last.pages)
    /\ \A q \in Range(last.pages) :
          q \in DOMAIN pre.Page /\ pre.Page[q].notebook = last.parent

\* C7: after MovePages(source, dest, pageIds) between two distinct notebooks
\* of the acting user, with pageIds duplicate-free pages of source, every
\* listed page's notebook is dest and dest's page order is its previous order
\* followed by pageIds in the order given.
C7_MoveAppends ==
    ValidMove
    => /\ last.parent # last.dest
       /\ pre.Notebook[last.parent].user = last.user
       /\ pre.Notebook[last.dest].user = last.user
       /\ \A q \in Range(last.pages) : Page[q].notebook = last.dest
       /\ Notebook[last.dest].custom_page_order
             = pre.Notebook[last.dest].custom_page_order \o last.pages

\* Reached: two pages moved, in descending id order, to a notebook that had
\* pages of its own.
C7_Witness ==
    /\ ValidMove
    /\ Len(last.pages) = 2
    /\ last.pages[1] > last.pages[2]
    /\ pre.Notebook[last.dest].custom_page_order # <<>>
    /\ Notebook[last.dest].custom_page_order
          = pre.Notebook[last.dest].custom_page_order \o last.pages

\* C8: MovePages removes the moved ids from the source notebook's page order
\* and leaves the remaining ids in their previous relative order.
C8_SourceKeepsOrder ==
    (/\ ValidMove
     /\ last.pages # <<>>
     /\ IsDuplicateFree(pre.Notebook[last.parent].custom_page_order)
     /\ Range(last.pages) \subseteq Range(pre.Notebook[last.parent].custom_page_order))
    => Notebook[last.parent].custom_page_order
          = SelectSeq(pre.Notebook[last.parent].custom_page_order,
                      LAMBDA x : x \notin Range(last.pages))

\* ------------------------------------------------------------- recycle bin
PageDestroyed == last.op = "destroy_page" /\ last.status = "204"
NotebookDestroyed == last.op = "destroy_notebook" /\ last.status = "204"

\* The entry the last request wrote.
NewEntry == NotesRecycleBin[Len(NotesRecycleBin)]

\* Exactly one entry was appended to the recycle bin.
OneNewEntry ==
    /\ Len(NotesRecycleBin) = Len(pre.NotesRecycleBin) + 1
    /\ SubSeq(NotesRecycleBin, 1, Len(pre.NotesRecycleBin)) = pre.NotesRecycleBin

\* The blocks of page p the request found.
OldBlocksOf(p) == {b \in DOMAIN pre.Block : pre.Block[b].page = p}

\* C9: deleting a page writes exactly one recycle bin entry of item_type page,
\* owned by the acting user, with the owning notebook's id and title, the
\* page's own fields, its block ids in the block_order held before the
\* delete, and the type, content and metadata of every block of the page;
\* the page row and its block rows are gone afterwards.
C9_PageSnapshot ==
    PageDestroyed
    => LET p == last.element
           old == pre.Page[p]
       IN  /\ OneNewEntry
           /\ NewEntry.item_type = "page"
           /\ NewEntry.user = last.user
           /\ NewEntry.notebook_id = old.notebook
           /\ NewEntry.notebook_title = pre.Notebook[old.notebook].title
           /\ NewEntry.item.id = p
           /\ NewEntry.item.notebook = old.notebook
           /\ NewEntry.item.title = old.title
           /\ NewEntry.item.blocks = old.block_order
           /\ Range(NewEntry.item.block_items)
                 = {[id |-> b, block_type |-> pre.Block[b].block_type,
                     content |-> pre.Block[b].content,
                     metadata |-> pre.Block[b].metadata] : b \in OldBlocksOf(p)}
           /\ Len(NewEntry.item.block_items) = Cardinality(OldBlocksOf(p))
           /\ p \notin Live(Page)
           /\ OldBlocksOf(p) \cap Live(Block) = {}

\* Reached: a page deleted after its blocks were repositioned out of their
\* ascending order; the entry holds that order and every block.
C9_Witness ==
    /\ PageDestroyed
    /\ Len(pre.Page[last.element].block_order) >= 2
    /\ \E i \in 1..(Len(pre.Page[last.element].block_order) - 1) :
          pre.Page[last.element].block_order[i]
              > pre.Page[last.element].block_order[i + 1]
    /\ NewEntry.item.blocks = pre.Page[last.element].block_order
    /\ Len(NewEntry.item.block_items) >= 2
    /\ last.element \notin Live(Page)

\* C10: deleting a notebook writes exactly one recycle bin entry of item_type
\* notebook whose snapshot lists the notebook's pages in the order of
\* custom_page_order held before the delete, each page with its block ids in
\* its block_order.
C10_NotebookSnapshot ==
    (/\ NotebookDestroyed
     /\ IsDuplicateFree(pre.Notebook[last.element].custom_page_order)
     /\ Range(pre.Notebook[last.element].custom_page_order)
           = {q \in DOMAIN pre.Page : pre.Page[q].notebook = last.element})
    => LET order == pre.Notebook[last.element].custom_page_order IN
       /\ OneNewEntry
       /\ NewEntry.item_type = "notebook"
       /\ [i \in DOMAIN NewEntry.item.pages |-> NewEntry.item.pages[i].id] = order
       /\ [i \in DOMAIN NewEntry.item.page_items |-> NewEntry.item.page_items[i].id]
             = order
       /\ \A i \in DOMAIN NewEntry.item.page_items :
             NewEntry.item.page_items[i].blocks
                 = pre.Page[NewEntry.item.page_items[i].id].block_order

\* The blocks of the pages of notebook n the request found.
OldBlocksOfNotebook(n) ==
    {b \in DOMAIN pre.Block : pre.Page[pre.Block[b].page].notebook = n}

\* C11: the snapshot written when a notebook is deleted holds, for every
\* block of every page of the notebook, the block's block_type, content and
\* metadata.
C11_NotebookSnapshotHoldsBlocks ==
    NotebookDestroyed
    => \A b \in OldBlocksOfNotebook(last.element) :
          \E i \in DOMAIN NewEntry.item.page_items :
             LET page_item == NewEntry.item.page_items[i] IN
             /\ page_item.id = pre.Block[b].page
             /\ "block_items" \in DOMAIN page_item
             /\ [id |-> b, block_type |-> pre.Block[b].block_type,
                 content |-> pre.Block[b].content,
                 metadata |-> pre.Block[b].metadata] \in Range(page_item.block_items)

\* ---------------------------------------------------------------- atomicity
SoftDeleteOps == {"destroy_notebook", "destroy_page"}

\* The live rows of the table the last delete request addresses.
LiveOfKind ==
    IF last.op = "destroy_notebook" THEN Live(Notebook)
    ELSE IF last.op = "destroy_page" THEN Live(Page)
    ELSE Live(Block)

\* C12: a recycle bin entry for a notebook or page exists only if that row
\* is deleted; a served delete wrote exactly one entry, deleted the row and
\* removed its id from the parent's sequence; a delete that failed or was
\* refused left the tables and the bin as they were; nothing else writes
\* the bin.
C12_SoftDeleteAtomic ==
    /\ \A i \in DOMAIN NotesRecycleBin :
          /\ NotesRecycleBin[i].item_type = "page"
                => NotesRecycleBin[i].item.id \notin Live(Page)
          /\ NotesRecycleBin[i].item_type = "notebook"
                => NotesRecycleBin[i].item.id \notin Live(Notebook)
    /\ (last.op \in SoftDeleteOps /\ last.status = "204")
          => /\ OneNewEntry
             /\ NewEntry.item.id = last.element
             /\ NewEntry.item_type = (IF last.op = "destroy_page" THEN "page" ELSE "notebook")
             /\ last.element \notin LiveOfKind
             /\ last.element \notin Range(Now)
    /\ (last.op \in SoftDeleteOps /\ last.status # "204") => Tables = pre
    /\ last.op \notin SoftDeleteOps => NotesRecycleBin = pre.NotesRecycleBin

\* Reached: the delete of a page with blocks failed after the entry was
\* written and the id removed; neither is visible.
C12_Witness ==
    /\ last.op = "destroy_page"
    /\ last.status = "error"
    /\ last.element \in Range(Before)
    /\ BlocksOf(last.element) # {}
    /\ Tables = pre

\* C13: a create of a notebook, page or block inserts the row and appends
\* its id to the parent's sequence together, or does neither: after a served
\* create the new id is a child row and the last entry of the sequence, and
\* after a create that failed (the parent row missing included) the tables
\* are as they were, with no row missing from the sequence and no entry
\* without its row.
C13_CreateAtomic ==
    last.op \in CreateOps
    => /\ last.status = "ok"
          => /\ last.element \in ChildRows(Tables, last)
             /\ Now = Before \o <<last.element>>
       /\ last.status # "ok" => Tables = pre
       /\ last.status # "DoesNotExist"
          => (last.element \in ChildRows(Tables, last) <=> last.element \in Range(Now))

\* Reached: the insert of a child failed after its id was appended to a
\* non-empty sequence; the sequence and the rows are as they were.
C13_Witness ==
    /\ last.op \in CreateOps
    /\ last.status = "error"
    /\ Before # <<>>
    /\ Now = Before
    /\ last.element \notin ChildRows(Tables, last)

\* C14: a delete of a notebook, page or block removes the id from the
\* parent's sequence and deletes the row together, or does neither: a delete
\* that failed never leaves a live child row whose id is gone from its
\* parent's sequence.
C14_DeleteAtomic ==
    (last.op \in DestroyOps /\ last.status \in {"204", "error"})
    => \/ /\ last.element \notin LiveOfKind
          /\ last.element \notin Range(Now)
       \/ /\ last.element \in LiveOfKind
          /\ Now = Before

\* ------------------------------------------------------------- concurrency
\* MaxConcurrent clients issue one mutation each against the sample data, at
\* the same time: a reposition, a create or a delete, naming children the
\* parent has when the calls are issued.  Each mutation changes the parent's
\* array in one UPDATE statement that PostgreSQL evaluates on the row as the
\* statement before it committed it (the row lock makes a second UPDATE of
\* the row wait and read the new value), so the interleavings of the calls
\* are the orders in which their statements commit.
IssuedNotebooks(u) == {n \in SampleNotebooks : SampleOwner(n) = u}
IssuedPages(n) == {p \in SamplePageIds : SampleNotebookOf(p) = n}
IssuedBlocks(p) == {b \in SampleBlockIds : SampleBlockPage(b) = p}

\* top, bottom, or after a sibling other than the element.
IssuedPlacements(ids, e) ==
    {<<"top", None>>, <<"bottom", None>>} \cup {<<"none", a>> : a \in ids \ {e}}

NextConcurrent ==
    \/ \E u \in Users, t \in Titles :
            ServeWithin(MaxConcurrent, CreateNotebook(u, t, "none"))
    \/ \E n \in SampleNotebooks, t \in Titles :
            ServeWithin(MaxConcurrent, CreatePage(n, t, "none"))
    \/ \E p \in SamplePageIds, c \in BlockPayloads :
            ServeWithin(MaxConcurrent, CreateBlock(p, c, "none"))
    \/ \E n \in SampleNotebooks :
            ServeWithin(MaxConcurrent, DestroyNotebook(SampleOwner(n), n, "none"))
    \/ \E p \in SamplePageIds :
            ServeWithin(MaxConcurrent,
                        DestroyPage(SampleOwner(SampleNotebookOf(p)), p, "none"))
    \/ \E b \in SampleBlockIds :
            ServeWithin(MaxConcurrent,
                DestroyBlock(SampleOwner(SampleNotebookOf(SampleBlockPage(b))), b, "none"))
    \/ \E u \in Users : \E e \in IssuedNotebooks(u) :
        \E pl \in IssuedPlacements(IssuedNotebooks(u), e) :
            ServeWithin(MaxConcurrent, RepositionNotebook(u, e, pl[1], pl[2]))
    \/ \E n \in SampleNotebooks : \E e \in IssuedPages(n) :
        \E pl \in IssuedPlacements(IssuedPages(n), e) :
            ServeWithin(MaxConcurrent,
                        RepositionPage(SampleOwner(n), n, e, pl[1], pl[2]))
    \/ \E p \in SamplePageIds \cap Live(Page) : \E e \in IssuedBlocks(p) :
        \E pl \in IssuedPlacements(IssuedBlocks(p), e) :
            ServeWithin(MaxConcurrent, RepositionBlock(p, e, pl[1], pl[2]))

SpecConcurrent == InitLoaded /\ [][NextConcurrent]_vars

\* C15: once concurrent mutations of a parent's sequence have committed, in
\* any order, the sequence has no duplicate ids and no id of a live child is
\* missing from it.
C15_ConcurrentMutations ==
    /\ \A u \in Users :
        /\ IsDuplicateFree(User[u].custom_notebook_order)
        /\ {n \in Live(Notebook) : Notebook[n].user = u}
              \subseteq Range(User[u].custom_notebook_order)
    /\ \A n \in Live(Notebook) :
        /\ IsDuplicateFree(Notebook[n].custom_page_order)
        /\ PagesOf(n) \subseteq Range(Notebook[n].custom_page_order)
    /\ \A p \in Live(Page) :
        /\ IsDuplicateFree(Page[p].block_order)
        /\ BlocksOf(p) \subseteq Range(Page[p].block_order)

\* ------------------------------------------------------------------ errors
\* C16: a reposition with no placement (no position or a position other than
\* top and bottom, and no after sibling) fails with the ValueError that names
\* position and after, and changes no sequence.
C16_NoPlacementRaises ==
    (/\ last.op \in RepositionOps
     /\ last.position \notin {"top", "bottom"}
     /\ last.after = None
     /\ last.status # "DoesNotExist")
    => /\ last.status = ValueError
       /\ Tables = pre

\* Reached: a reposition with a position that is not top or bottom and no
\* after, on a sequence of two or more ids that holds the element.
C16_Witness ==
    /\ last.op \in RepositionOps
    /\ last.position = "middle"
    /\ last.after = None
    /\ last.status = ValueError
    /\ Len(Before) >= 2
    /\ last.element \in Range(Before)
    /\ Now = Before

\* C17: a reposition after a sibling that is not in the sequence once the
\* element is taken out of it (not a child of the parent, or the element
\* itself) fails and leaves the sequence unchanged.
C17_AbsentSiblingFails ==
    (/\ last.op \in RepositionOps
     /\ last.position \notin {"top", "bottom"}
     /\ last.after # None
     /\ last.status # "DoesNotExist"
     /\ last.after \notin Range(Without(Before, last.element)))
    => /\ last.status # "204"
       /\ Now = Before

\* --------------------------------------------------------------- move_pages
\* Notebook n existed and was the acting user's when the request came.
OwnedBefore(n) == n \in DOMAIN pre.Notebook /\ pre.Notebook[n].user = last.user

\* C18: MovePages answers 404 and changes no page's notebook and no
\* notebook's sequence when the source or the destination does not exist or
\* is not the acting user's, or when they are the same notebook.
C18_MoveRefused ==
    (/\ last.op = "move_pages"
     /\ \/ ~OwnedBefore(last.parent)
        \/ ~OwnedBefore(last.dest)
        \/ last.parent = last.dest)
    => /\ last.status = "404"
       /\ Tables = pre

\* Reached: a move from a notebook of the acting user that has pages to a
\* notebook of another user, refused.
C18_Witness ==
    /\ last.op = "move_pages"
    /\ last.status = "404"
    /\ OwnedBefore(last.parent)
    /\ pre.Notebook[last.parent].custom_page_order # <<>>
    /\ last.dest \in DOMAIN pre.Notebook
    /\ pre.Notebook[last.dest].user # last.user
    /\ Tables = pre

\* How many times x occurs in s.
Count(s, x) == Cardinality({i \in DOMAIN s : s[i] = x})

\* The listed ids that were not pages of the source notebook.
NotOfSource ==
    {q \in Range(last.pages) :
        q \notin DOMAIN pre.Page \/ pre.Page[q].notebook # last.parent}

\* C19: a served MovePages leaves alone every listed id that is not a page
\* of the source notebook (a page of another notebook, a page already in
\* the destination, an id of no page): it does not change that page's
\* notebook and does not add the id to the destination's sequence; and it
\* adds a repeated id once at most.
C19_MoveOnlySourcePages ==
    Moved
    => /\ \A q \in NotOfSource :
            /\ q \in DOMAIN pre.Page => Page[q].notebook = pre.Page[q].notebook
            /\ Count(Notebook[last.dest].custom_page_order, q)
                  = Count(pre.Notebook[last.dest].custom_page_order, q)
       /\ \A q \in Range(last.pages) :
            Count(Notebook[last.dest].custom_page_order, q)
               <= Count(pre.Notebook[last.dest].custom_page_order, q) + 1

\* ------------------------------------------------------ recycle bin listing
\* Deletes of notebooks and pages of the sample data by either user, and
\* listings of the recycle bin.
NextRecycleBin ==
    \/ \E u \in Users, n \in Live(Notebook) :
            ServeWithin(MaxBinOps, DestroyNotebook(u, n, "none"))
    \/ \E u \in Users, p \in Live(Page) :
            ServeWithin(MaxBinOps, DestroyPage(u, p, "none"))
    \/ \E u \in Users : Handle(MaxBinOps, ListRecycleBin(u) /\ UNCHANGED inflight)

SpecRecycleBin == InitLoaded /\ [][NextRecycleBin]_vars

\* C20: the listing of a user's recycle bin holds exactly the entries that
\* user owns, none of another user, in ascending deleted_on: the entry of an
\* earlier delete comes before the entry of a later one.
C20_ListRecycleBin ==
    last.op = "list_recycle_bin"
    => LET owned == {i \in DOMAIN NotesRecycleBin :
                        NotesRecycleBin[i].user = last.user}
       IN  /\ Len(response) = Cardinality(owned)
           /\ {response[i].id : i \in DOMAIN response}
                 = {NotesRecycleBin[i].id : i \in owned}
           /\ \A i \in DOMAIN response :
                 \E k \in owned :
                    /\ NotesRecycleBin[k].id = response[i].id
                    /\ NotesRecycleBin[k].deleted_on = response[i].deleted_on
                    /\ NotesRecycleBin[k].item_type = response[i].item_type
                    /\ NotesRecycleBin[k].notebook_id = response[i].notebook_id
           /\ \A i, j \in DOMAIN response :
                 i < j => response[i].deleted_on < response[j].deleted_on
           /\ \A a, b \in owned :
                 a < b => \E i, j \in DOMAIN response :
                            /\ i < j
                            /\ response[i].id = NotesRecycleBin[a].id
                            /\ response[j].id = NotesRecycleBin[b].id

\* Reached: a listing of two entries of the user, with an entry of another
\* user written between them left out.
C20_Witness ==
    /\ last.op = "list_recycle_bin"
    /\ Len(response) = 2
    /\ Len(NotesRecycleBin) = 3
    /\ NotesRecycleBin[2].user # last.user
    /\ response[1].id = NotesRecycleBin[1].id
    /\ response[2].id = NotesRecycleBin[3].id

\* ------------------------------------------------------------------ C21
\* C21: restoring a recycle-bin entry always ends in the explicit
\* "unimplemented" failure (NotImplementedError) and changes nothing: the
\* entry remains, no Notebook, Page or Block row is created and no order
\* sequence is modified.
Restored == last.op = "restore"

C21_RestoreUnimplemented ==
    Restored => /\ last.status = "NotImplementedError"
                /\ Tables = pre

\* The part of C21 that the code keeps: a restore changes no table.
C21_RestoreChangesNothing == Restored => Tables = pre

\* ------------------------------------------------------------------ C22
\* C22: Reposition (Top, Bottom or After) with a child id that is not a member
\* of the parent's sequence does not insert it: the resulting sequence is a
\* permutation of the sequence before the call (same element set, same
\* length).
IsPermutation(s, t) ==
    /\ Len(s) = Len(t)
    /\ \A x \in Range(s) \cup Range(t) : Count(s, x) = Count(t, x)

C22_NonMemberNotInserted ==
    (Repositioned /\ last.element \notin Range(Before))
    => IsPermutation(Now, Before)

\* ------------------------------------------------------------------ C23
\* C23: MovePages changes only the source notebook's page order, the
\* destination notebook's page order and the notebook reference of the moved
\* pages; every other notebook's sequence, the users' custom_notebook_order,
\* the block_order of every page and all Block rows are unchanged, no row is
\* created or deleted, and the three changes become visible together or not
\* at all (a move that fails leaves every table as it found it).
MoveFrame ==
    /\ User = pre.User
    /\ Block = pre.Block
    /\ NotesRecycleBin = pre.NotesRecycleBin
    /\ DOMAIN Notebook = DOMAIN pre.Notebook
    /\ \A n \in DOMAIN Notebook :
        /\ [Notebook[n] EXCEPT !.custom_page_order = pre.Notebook[n].custom_page_order]
             = pre.Notebook[n]
        /\ n \notin {last.parent, last.dest} => Notebook[n] = pre.Notebook[n]
    /\ DOMAIN Page = DOMAIN pre.Page
    /\ \A p \in DOMAIN Page :
        /\ [Page[p] EXCEPT !.notebook = pre.Page[p].notebook] = pre.Page[p]
        /\ p \notin Range(last.pages) => Page[p] = pre.Page[p]

C23_MoveFrameAtomic ==
    /\ Moved => MoveFrame
    /\ (last.op = "move_pages" /\ ~Moved) => Tables = pre

\* Reached: a served move that re-parented a page and changed both sequences.
C23_Witness ==
    /\ Moved
    /\ \E p \in Range(last.pages) \cap DOMAIN Page : Page[p].notebook # pre.Page[p].notebook
    /\ Notebook[last.parent] # pre.Notebook[last.parent]
    /\ Notebook[last.dest] # pre.Notebook[last.dest]

\* Reached: a move that failed after its first statements had run.
C23_FailedMove ==
    /\ last.op = "move_pages"
    /\ last.status = "error"
    /\ \E p \in Range(last.pages) \cap DOMAIN Page : Page[p].notebook # last.dest

\* ------------------------------------------------------------------ C24
\* The pages of notebook n the request found.
OldPagesOf(n) == {p \in DOMAIN pre.Page : pre.Page[p].notebook = n}

\* Table `now` is table `old` without the rows `gone`, the others as they were.
OnlyLost(now, old, gone) ==
    /\ DOMAIN now = DOMAIN old \ gone
    /\ \A i \in DOMAIN now : now[i] = old[i]

\* Every foreign key names a live row.
NoDanglingReference ==
    /\ \A n \in Live(Notebook) : Notebook[n].user \in DOMAIN User
    /\ \A p \in Live(Page) : Page[p].notebook \in Live(Notebook)
    /\ \A b \in Live(Block) : Block[b].page \in Live(Page)

\* C24: deleting a notebook deletes all of its page rows and all block rows
\* of those pages, and the only surviving order sequence it changes is the
\* owner's custom_notebook_order, which loses exactly the notebook id;
\* deleting a page deletes all of its block rows and changes only its
\* notebook's custom_page_order.  No sequence of another parent is modified
\* and afterwards no live row references a deleted parent.
C24_DeleteCascadesFrame ==
    /\ NotebookDestroyed
       => LET n == last.element IN
          /\ OnlyLost(Notebook, pre.Notebook, {n})
          /\ OnlyLost(Page, pre.Page, OldPagesOf(n))
          /\ OnlyLost(Block, pre.Block, OldBlocksOfNotebook(n))
          /\ User = [pre.User EXCEPT ![pre.Notebook[n].user].custom_notebook_order =
                                        Without(@, n)]
    /\ PageDestroyed
       => LET p == last.element IN
          /\ OnlyLost(Page, pre.Page, {p})
          /\ OnlyLost(Block, pre.Block, OldBlocksOf(p))
          /\ User = pre.User
          /\ Notebook = [pre.Notebook EXCEPT ![pre.Page[p].notebook].custom_page_order =
                                                Without(@, p)]
    /\ NoDanglingReference

\* Reached: a notebook with pages and blocks was deleted while another
\* notebook of the same owner, and other pages and blocks, stayed.
C24_Witness ==
    /\ NotebookDestroyed
    /\ OldPagesOf(last.element) # {}
    /\ OldBlocksOfNotebook(last.element) # {}
    /\ Len(pre.User[pre.Notebook[last.element].user].custom_notebook_order) >= 2
    /\ Live(Page) # {}
    /\ Live(Block) # {}

\* ------------------------------------------------------------------ C27
\* The owner, in the tables the request found, of a notebook, of a page (the
\* owner of its notebook) and of a block (the owner of its page).
OwnerOfNotebook(n) == pre.Notebook[n].user
OwnerOfPage(p) == OwnerOfNotebook(pre.Page[p].notebook)
OwnerOfBlock(b) == OwnerOfPage(pre.Block[b].page)

\* The last request named a notebook, page or block of another user.
NamesForeignRow ==
    \/ /\ last.op \in {"reposition_page", "move_pages"}
       /\ last.parent \in DOMAIN pre.Notebook
       /\ OwnerOfNotebook(last.parent) # last.user
    \/ /\ last.op = "move_pages"
       /\ \/ /\ last.dest \in DOMAIN pre.Notebook
             /\ OwnerOfNotebook(last.dest) # last.user
          \/ \E q \in Range(last.pages) \cap DOMAIN pre.Page : OwnerOfPage(q) # last.user
    \/ /\ last.op = "destroy_notebook"
       /\ last.element \in DOMAIN pre.Notebook
       /\ OwnerOfNotebook(last.element) # last.user
    \/ /\ last.op = "destroy_page"
       /\ last.element \in DOMAIN pre.Page
       /\ OwnerOfPage(last.element) # last.user
    \/ /\ last.op = "destroy_block"
       /\ last.element \in DOMAIN pre.Block
       /\ OwnerOfBlock(last.element) # last.user

\* C27: a request by user A that names a notebook, page or block of another
\* user B (RepositionPage on B's notebook, delete of B's notebook, page or
\* block, MovePages between or listing B's notebooks or pages) answers
\* NotFound, changes no row and no order sequence, and writes no recycle bin
\* entry.
C27_ConfinedToOwnHierarchy ==
    NamesForeignRow => /\ last.status = "404"
                       /\ Tables = pre

\* ------------------------------------------- deletes that overlap requests
\* The requests of the first user against their own sample notebooks: deletes
\* in two steps, and creates and repositions below the same notebooks.
InFlightUser == Usernames[1]
InFlightNotebooks == IssuedNotebooks(InFlightUser)
InFlightPages == UNION {IssuedPages(n) : n \in InFlightNotebooks}

NextInFlight ==
    \/ \E p \in InFlightPages :
            Handle(MaxInFlight, LoadPage(InFlightUser, p) /\ response' = <<>>)
    \/ \E n \in InFlightNotebooks :
            Handle(MaxInFlight, LoadNotebook(InFlightUser, n) /\ response' = <<>>)
    \/ \E i \in DOMAIN inflight :
            Handle(MaxInFlight, CommitPage(i) /\ response' = <<>>)
    \/ \E i \in DOMAIN inflight :
            Handle(MaxInFlight, CommitNotebook(i) /\ response' = <<>>)
    \/ \E n \in InFlightNotebooks, t \in Titles :
            ServeWithin(MaxInFlight, CreatePage(n, t, "none"))
    \/ \E p \in InFlightPages, c \in BlockPayloads :
            ServeWithin(MaxInFlight, CreateBlock(p, c, "none"))
    \/ \E n \in InFlightNotebooks : \E e \in IssuedPages(n) :
        \E pl \in {<<"top", None>>, <<"bottom", None>>} :
            ServeWithin(MaxInFlight, RepositionPage(InFlightUser, n, e, pl[1], pl[2]))
    \/ \E p \in InFlightPages \cap Live(Page) : \E e \in IssuedBlocks(p) :
        \E pl \in {<<"top", None>>, <<"bottom", None>>} :
            ServeWithin(MaxInFlight, RepositionBlock(p, e, pl[1], pl[2]))

SpecInFlight == InitLoaded /\ [][NextInFlight]_vars

\* ------------------------------------------------------------------ C25
\* The ids a snapshot lists.
ItemIds(items) == {items[i].id : i \in DOMAIN items}

\* C25: when a page or notebook delete overlaps a block or page create or a
\* reposition below it, every row the delete removes is in the snapshot of
\* the entry and the snapshot's order is the sequence at the moment of the
\* deletion: for a page, every block row removed is among block_items and
\* "blocks" is the page's block_order when the rows were deleted; for a
\* notebook, every page row removed is among page_items.
C25_SnapshotOfWhatIsDestroyed ==
    /\ (PageDestroyed /\ last.element \in DOMAIN pre.Page)
       => /\ OldBlocksOf(last.element) \subseteq ItemIds(NewEntry.item.block_items)
          /\ NewEntry.item.blocks = pre.Page[last.element].block_order
    /\ (NotebookDestroyed /\ last.element \in DOMAIN pre.Notebook)
       => OldPagesOf(last.element) \subseteq ItemIds(NewEntry.item.page_items)

\* ------------------------------------------------------------------ C26
\* C26: two delete requests for the same page (or the same notebook) that
\* overlap leave exactly one recycle bin entry for it: the request that loses
\* the race writes no second entry for the item already deleted.
C26_OneEntryPerItem ==
    \A i, j \in DOMAIN NotesRecycleBin :
        (/\ NotesRecycleBin[i].item_type = NotesRecycleBin[j].item_type
         /\ NotesRecycleBin[i].item.id = NotesRecycleBin[j].item.id)
        => i = j

====
